---- MODULE Spec2Model ----
(***************************************************************************)
(* ai-manager: the output reconciliation engine of the CLI (init, skills   *)
(* add/remove, harnesses add/remove, doctor), the registry it reads and    *)
(* the file utilities it writes through.                                   *)
(*                                                                         *)
(* The project's files are `disk`, a map from absolute paths to contents.  *)
(* `backups` is the backup tree of the command that runs or ran last: each *)
(* command that enables backups reads the clock and gets a root            *)
(* ai/.backups/<timestamp> of its own, empty when it starts; the trees of  *)
(* earlier commands are never written again and are left out.  One command *)
(* runs at a time (pc).  A command that gets past its prompts becomes a    *)
(* sequence of file-system steps (op.todo) executed one await at a time;   *)
(* any of them may fail with an I/O error, which aborts the command where  *)
(* it stands.                                                              *)
(*                                                                         *)
(* The registry is `registryDir`, the manifests of its directories.  The    *)
(* commands run against the registry the package ships, which is valid;    *)
(* loadRegistry on its own is run over registries with repeated ids.       *)
(*                                                                         *)
(* Output targets of the registry are written in normalised form, so that  *)
(* path.join(projectRoot, target) maps distinct targets to distinct files. *)
(***************************************************************************)
EXTENDS Integers, Sequences, FiniteSets, TLC

\* ------------------------------------------------------------------ bounds

\* Number of commands that reach buildBackupOptions (each reads the clock once).
MaxOps == 3

\* Number of commands that an I/O error may abort.
MaxFailures == 1

\* Number of skill directories, and of harness directories, of a registry that is
\* loaded on its own.
MaxDirs == 2

\* The longest list of skills buildAgentsMarkdown is given.
MaxSkills == 3

\* --------------------------------------------------------------- constants

CURRENT_VERSION == "0.1.0"

AGENTS_MD == "ai/agents.md"

STATE_JSON == "ai/ai-manager.json"

PROJECT_NAME == "project"

\* ------------------------------------------------------------------ state

VARIABLES
    disk,      \* the project's files: absolute path -> contents
    backups,   \* the files under the backup root of the running (or last) command
    failures,  \* the number of commands an I/O error has aborted
    lastFailed,\* the command an I/O error aborted last: what it planned, where it stopped
    clock,     \* the last timestamp read from the system clock
    pc,        \* "idle" between commands, "run" while a command's steps execute,
               \* "done" when the command has returned or thrown
    op,        \* the command that runs or ran last, with what it planned and did
    outcome,   \* how the last command ended
    registryDir, \* the manifests read from the directories under the registry root,
               \* in the order the directories are listed
    loaded,    \* what the last call of loadRegistry on its own returned
    assembly   \* a call of buildAgentsMarkdown on its own: its input, the fragments
               \* rendered so far, and the document it returns

vars == << disk, backups, failures, lastFailed, clock, pc, op, outcome, registryDir, loaded, assembly >>

\* ---------------------------------------------------------------- registry

\* A skill manifest with one question, one output and an activation-rule template.
FrontendDesign ==
    [ id |-> "frontend-design", name |-> "Frontend design",
      description |-> "Frontend guidance", version |-> "1.0.0",
      questions |-> << [id |-> "frontendDir", type |-> "path", required |-> TRUE] >>,
      outputs |-> << [target |-> "ai/skills/frontend-design-skill.md",
                      template |-> "skill.md.hbs"] >>,
      agentsSnippetTemplate |-> "agents.snippet.md.hbs",
      activationRulesTemplate |-> "activation.md.hbs" ]

\* A second skill with a question and an activation-rule template.
Backend ==
    [ id |-> "backend", name |-> "Backend",
      description |-> "Backend guidance", version |-> "1.0.0",
      questions |-> << [id |-> "backendDir", type |-> "path", required |-> TRUE] >>,
      outputs |-> << [target |-> "ai/skills/backend-skill.md",
                      template |-> "skill.md.hbs"] >>,
      agentsSnippetTemplate |-> "agents.snippet.md.hbs",
      activationRulesTemplate |-> "activation.md.hbs" ]

\* The distinguished planner skill: no questions, no activation-rule template.
Planner ==
    [ id |-> "planner", name |-> "Planner",
      description |-> "Planning guidance", version |-> "1.0.0",
      questions |-> << >>,
      outputs |-> << [target |-> "ai/skills/planner-skill.md",
                      template |-> "skill.md.hbs"] >>,
      agentsSnippetTemplate |-> "agents.snippet.md.hbs",
      activationRulesTemplate |-> "" ]

\* Two harnesses that both declare AGENTS.md; opencode declares a second file.
Codex ==
    [ id |-> "codex", name |-> "Codex", version |-> "1.0.0",
      outputs |-> << [target |-> "AGENTS.md", template |-> "AGENTS.md.hbs"] >> ]

Opencode ==
    [ id |-> "opencode", name |-> "OpenCode", version |-> "1.0.0",
      outputs |-> << [target |-> "AGENTS.md", template |-> "AGENTS.md.hbs"],
                     [target |-> ".opencode/ai-manager.md", template |-> "rules.md.hbs"] >> ]

\* Manifests of further directories that carry an id another directory has: a
\* second planner skill, a second codex harness, and a harness called planner.
PlannerFork ==
    [ id |-> "planner", name |-> "Planner (fork)",
      description |-> "Planning guidance", version |-> "2.0.0",
      questions |-> << >>,
      outputs |-> << [target |-> "ai/skills/planner-skill.md",
                      template |-> "skill.md.hbs"] >>,
      agentsSnippetTemplate |-> "agents.snippet.md.hbs",
      activationRulesTemplate |-> "" ]

CodexFork ==
    [ id |-> "codex", name |-> "Codex (fork)", version |-> "2.0.0",
      outputs |-> << [target |-> "AGENTS.md", template |-> "AGENTS.md.hbs"] >> ]

PlannerHarness ==
    [ id |-> "planner", name |-> "Planner harness", version |-> "1.0.0",
      outputs |-> << [target |-> "PLANNER.md", template |-> "PLANNER.md.hbs"] >> ]

\* A harness whose manifest declares ai/agents.md as the target of its rules file.
Cursor ==
    [ id |-> "cursor", name |-> "Cursor", version |-> "1.0.0",
      outputs |-> << [target |-> "ai/agents.md", template |-> "rules.md.hbs"] >> ]

\* The registry the package ships, as far as it is modelled.
BuiltInRegistry ==
    [ skills |-> << FrontendDesign, Planner >>, harnesses |-> << Codex, Opencode >> ]

\* a.id.localeCompare(b.id) on the ids of the manifests: their rank in this order.
IdOrder == << "backend", "codex", "cursor", "frontend-design", "opencode", "planner" >>

localeCompare(a, b) ==
    (CHOOSE i \in 1..Len(IdOrder) : IdOrder[i] = a)
    - (CHOOSE i \in 1..Len(IdOrder) : IdOrder[i] = b)

\* sortById as no sort at all: the manifests stay in directory order.
sortByIdUnsorted(manifests) == manifests

\* Array.prototype.sort by id (a stable sort): insertion behind the equal ids.
RECURSIVE sortById(_)
sortById(manifests) ==
    IF manifests = << >> THEN << >>
    ELSE LET rest == sortById(SubSeq(manifests, 1, Len(manifests) - 1))
             last == manifests[Len(manifests)]
             k    == Cardinality({ i \in 1..Len(rest) :
                                     localeCompare(rest[i].id, last.id) <= 0 })
         IN SubSeq(rest, 1, k) \o << last >> \o SubSeq(rest, k + 1, Len(rest))

\* Manifest files that do not validate: no version, no outputs.
BrokenSkill == [ id |-> "frontend-design", name |-> "Frontend design (draft)" ]

BrokenHarness == [ id |-> "opencode", name |-> "OpenCode (draft)" ]

\* SkillManifestSchema / HarnessManifestSchema: does .parse(data) succeed.
SkillManifestSchemaLax(data) == "id" \in DOMAIN data

SkillManifestSchema(data) ==
    {"id", "name", "description", "version", "agentsSnippetTemplate"} \subseteq DOMAIN data

HarnessManifestSchema(data) == {"id", "name", "version"} \subseteq DOMAIN data

\* What .parse(data) returns for data that validates: the defaults are filled in.
SkillManifestSchemaParse(data) ==
    IF {"questions", "outputs", "activationRulesTemplate"} \subseteq DOMAIN data THEN data
    ELSE data @@ [ questions |-> << >>, outputs |-> << >>, activationRulesTemplate |-> "" ]

HarnessManifestSchemaParse(data) ==
    IF "outputs" \in DOMAIN data THEN data ELSE data @@ [ outputs |-> << >> ]

\* loadSkills / loadHarnesses, when every manifest validates: the parsed manifests
\* of the directories, sorted by id.
loadSkills ==
    sortById([ i \in 1..Len(registryDir.skills) |->
                 SkillManifestSchemaParse(registryDir.skills[i]) ])

loadHarnesses ==
    sortById([ i \in 1..Len(registryDir.harnesses) |->
                 HarnessManifestSchemaParse(registryDir.harnesses[i]) ])

\* assertValidRegistryIds that looks at the skills only.
assertValidRegistryIdsSkillsOnly(skills, harnesses) ==
    IF Cardinality({ skills[i].id : i \in 1..Len(skills) }) # Len(skills) THEN "skills"
    ELSE "ok"

\* assertValidRegistryIds: the list whose ids are not unique ("ok" when both are).
assertValidRegistryIds(skills, harnesses) ==
    IF Cardinality({ skills[i].id : i \in 1..Len(skills) }) # Len(skills) THEN "skills"
    ELSE IF Cardinality({ harnesses[i].id : i \in 1..Len(harnesses) }) # Len(harnesses)
         THEN "harnesses"
         ELSE "ok"

\* loadRegistry: both lists, or the ZodError that assertValidRegistryIds throws.
loadRegistry ==
    IF \/ \E i \in 1..Len(registryDir.skills) : ~SkillManifestSchema(registryDir.skills[i])
       \/ \E i \in 1..Len(registryDir.harnesses) :
              ~HarnessManifestSchema(registryDir.harnesses[i])
    THEN [ kind |-> "ZodError", path |-> "manifest" ]
    ELSE IF assertValidRegistryIds(loadSkills, loadHarnesses) # "ok"
    THEN [ kind |-> "ZodError",
           path |-> assertValidRegistryIds(loadSkills, loadHarnesses) ]
    ELSE [ kind |-> "registry", skills |-> loadSkills, harnesses |-> loadHarnesses ]

\* ----------------------------------------------------------------- helpers

Range(s) == { s[i] : i \in 1..Len(s) }

Ids(s) == [ i \in 1..Len(s) |-> s[i].id ]

\* Array.prototype.find on manifests by id: is there a match, and the first match.
has(manifests, id) == \E i \in 1..Len(manifests) : manifests[i].id = id

find(manifests, id) ==
    manifests[CHOOSE i \in 1..Len(manifests) :
                 /\ manifests[i].id = id
                 /\ \A j \in 1..(i - 1) : manifests[j].id # id]

\* Set.prototype.add on an insertion-ordered JavaScript Set.
setAdd(targets, t) == IF t \in Range(targets) THEN targets ELSE Append(targets, t)

RECURSIVE addOutputs(_, _)
addOutputs(targets, outputs) ==
    IF outputs = << >> THEN targets
    ELSE addOutputs(setAdd(targets, Head(outputs).target), Tail(outputs))

RECURSIVE collectFrom(_, _, _)
collectFrom(manifests, ids, targets) ==
    IF ids = << >> THEN targets
    ELSE IF ~has(manifests, Head(ids))
         THEN collectFrom(manifests, Tail(ids), targets)
         ELSE collectFrom(manifests, Tail(ids),
                          addOutputs(targets, find(manifests, Head(ids)).outputs))

\* collectOutputTargets without the state file among the fixed targets.
collectOutputTargetsNoState(skills, harnesses, skillIds, harnessIds) ==
    setAdd(collectFrom(harnesses, harnessIds, collectFrom(skills, skillIds, << >>)),
           AGENTS_MD)

\* collectOutputTargets: the declared targets of the selected ids that the registry
\* knows, then the two fixed targets; an insertion-ordered set without duplicates.
collectOutputTargets(skills, harnesses, skillIds, harnessIds) ==
    setAdd(setAdd(collectFrom(harnesses, harnessIds,
                              collectFrom(skills, skillIds, << >>)),
                  AGENTS_MD),
           STATE_JSON)

\* --------------------------------------------------------------- rendering

Absent == [kind |-> "absent"]

EmptyText == [kind |-> "text", text |-> ""]

\* renderTemplateFile: the text is a function of the template read and the context.
renderTemplateFile(templatePath, context) ==
    [kind |-> "rendered", template |-> templatePath, context |-> context]

\* skillAnswers[id] ?? {} on Object.fromEntries(selectedSkills.map(...)).
skillAnswerMap(selectedSkills, id) ==
    IF has(selectedSkills, id)
    THEN selectedSkills[CHOOSE i \in 1..Len(selectedSkills) :
                           /\ selectedSkills[i].id = id
                           /\ \A j \in (i + 1)..Len(selectedSkills) :
                                 selectedSkills[j].id # id].answers
    ELSE << >>

buildSkillIndexTable(skills) ==
    IF Len(skills) = 0 THEN [kind |-> "text", text |-> "No skills selected."]
    ELSE [kind |-> "table",
          rows |-> [ i \in 1..Len(skills) |->
                       << skills[i].id, skills[i].name, skills[i].description >> ]]

\* buildAgentsMarkdown: the aggregate document of a selection.
buildAgentsMarkdown(harnesses, skills, selected) ==
    LET selectedSkills == SelectSeq(skills, LAMBDA s : s.id \in Range(Ids(selected)))
        hasPlanner     == has(selectedSkills, "planner")
        guideSkills    == SelectSeq(selectedSkills, LAMBDA s : s.id # "planner")
        ruleSkills     == SelectSeq(selectedSkills,
                                    LAMBDA s : s.activationRulesTemplate # "")
        snippets ==
            [ i \in 1..Len(guideSkills) |->
                renderTemplateFile(
                    << "skills", guideSkills[i].id, guideSkills[i].agentsSnippetTemplate >>,
                    [skill |-> guideSkills[i],
                     answers |-> skillAnswerMap(selected, guideSkills[i].id)]) ]
        activationRules ==
            [ i \in 1..Len(ruleSkills) |->
                renderTemplateFile(
                    << "skills", ruleSkills[i].id, ruleSkills[i].activationRulesTemplate >>,
                    [skill |-> ruleSkills[i],
                     answers |-> skillAnswerMap(selected, ruleSkills[i].id)]) ]
        planSection ==
            IF hasPlanner
            THEN renderTemplateFile(
                     << "skills", "planner", find(selectedSkills, "planner").agentsSnippetTemplate >>,
                     [skill |-> find(selectedSkills, "planner"), answers |-> << >>])
            ELSE EmptyText
    IN renderTemplateFile(
           << "templates", "agents.base.md.hbs" >>,
           [ projectName |-> PROJECT_NAME,
             harnessNotes |-> IF Len(harnesses) # 0 THEN harnesses ELSE << "None" >>,
             planSection |-> planSection,
             skillIndexTable |-> buildSkillIndexTable(selectedSkills),
             skillGuides |-> snippets,
             activationRules |-> activationRules ])

\* writeRenderedOutput: render the output's template and write it to its target.
writeRenderedOutput(output, templateRoot, context) ==
    [ kind |-> "write", target |-> output.target,
      contents |-> renderTemplateFile(templateRoot \o << output.template >>, context) ]

\* ------------------------------------------------------------- file system

\* path.join(projectRoot, target): an absolute path, as its components below "/".
projectPath(target) == << PROJECT_NAME, target >>

\* The top-level directory of the project that holds a target ("" for a root file).
topDirectory(target) ==
    CASE target = "AGENTS.md" -> ""
      [] target = ".opencode/ai-manager.md" -> ".opencode"
      [] OTHER -> "ai"

pathExists(d, p) == p \in DOMAIN d

\* fsWriteFile that clears a file that is already there instead of replacing it.
fsWriteFileToggle(d, p, contents) ==
    IF p \in DOMAIN d THEN [ q \in DOMAIN d \ {p} |-> d[q] ]
    ELSE [ q \in DOMAIN d \cup {p} |-> IF q = p THEN contents ELSE d[q] ]

\* fsWriteFile that never replaces a file that is already there.
fsWriteFileNoClobber(d, p, contents) ==
    [ q \in DOMAIN d \cup {p} |-> IF q \in DOMAIN d THEN d[q] ELSE contents ]

\* fs.writeFile / fs.rm({force: true}) on the map of files.
fsWriteFile(d, p, contents) == [ q \in DOMAIN d \cup {p} |-> IF q = p THEN contents ELSE d[q] ]

fsRm(d, p) == [ q \in DOMAIN d \ {p} |-> d[q] ]

\* fs.rm without force: a path that does not exist is an error.
fsRmNoForce(d, p) == ~pathExists(d, p)

\* fs.rm with force: true never throws because the path does not exist.
fsRmThrows(d, p) == FALSE

\* buildBackupOptions: disabled, or a root ai/.backups/<timestamp> under the project.
buildBackupOptions(enableBackup, timestamp) ==
    IF ~enableBackup
    THEN [enabled |-> FALSE, backupRoot |-> << >>]
    ELSE [enabled |-> TRUE, backupRoot |-> << PROJECT_NAME, "ai/.backups", timestamp >>]

\* resolveBackupPath: the root of an absolute target path is sliced off and what is
\* left (project root included) is joined to the backup root.
resolveBackupPath(targetPath, backupRoot) == backupRoot \o targetPath

\* writeFileAlways without its backup branch.
writeFileAlwaysNeverBacksUp(d, targetPath, backup) == FALSE

\* The condition under which writeFileAlways copies the existing file first.
writeFileAlwaysBacksUp(d, targetPath, backup) ==
    pathExists(d, targetPath) /\ backup.enabled /\ backup.backupRoot # << >>

\* The condition under which backupExistingFile copies the file.
backupExistingFileBacksUp(d, targetPath, backup) ==
    ~(~backup.enabled \/ backup.backupRoot = << >>) /\ pathExists(d, targetPath)

\* The copy itself: read the target, write it at its backup path.
copyToBackup(b, d, targetPath, backup) ==
    fsWriteFile(b, resolveBackupPath(targetPath, backup.backupRoot), d[targetPath])

\* ---------------------------------------------------------- persisted state

NoState == [kind |-> "null"]

NoFacts == [kind |-> "undefined"]

\* writeJsonFile / readJsonFile: JSON text of a value, and the value of a JSON text.
jsonStringify(data) == [kind |-> "json", data |-> data]

readJsonFile(d, p) == d[p].data

\* findManagerState that re-scans the project: a skill whose declared output is
\* missing on disk is taken as not selected.
findManagerStateScanning(d) ==
    IF ~pathExists(d, projectPath(STATE_JSON)) THEN NoState
    ELSE LET state == readJsonFile(d, projectPath(STATE_JSON)) IN
         [state EXCEPT !.skills =
             SelectSeq(@, LAMBDA sk :
                 \A t \in Range(collectOutputTargets(loadSkills, << >>, << sk.id >>, << >>))
                          \ {AGENTS_MD, STATE_JSON} :
                     pathExists(d, projectPath(t)))]

\* findManagerState that makes up an empty state where the file is missing.
findManagerStateOrEmpty(d) ==
    IF ~pathExists(d, projectPath(STATE_JSON))
    THEN [ version |-> CURRENT_VERSION, createdAt |-> 0, updatedAt |-> 0,
           projectRoot |-> PROJECT_NAME, facts |-> NoFacts,
           skills |-> << >>, harnesses |-> << >> ]
    ELSE readJsonFile(d, projectPath(STATE_JSON))

findManagerState(d) ==
    IF ~pathExists(d, projectPath(STATE_JSON)) THEN NoState
    ELSE readJsonFile(d, projectPath(STATE_JSON))

\* isInited that looks for the harness file AGENTS.md instead of ai/agents.md.
isInitedRootAgents(d) ==
    pathExists(d, projectPath("AGENTS.md")) /\ pathExists(d, projectPath(STATE_JSON))

isInited(d) ==
    pathExists(d, projectPath(AGENTS_MD)) /\ pathExists(d, projectPath(STATE_JSON))

\* scanProjectFacts: the directories at the project root, undefined when none
\* (the generated files are no lock files and no tsconfig files).
scanProjectFacts(d) ==
    LET directories == { topDirectory(p[2]) : p \in { q \in DOMAIN d : Len(q) = 2 } } \ {""}
    IN  IF directories = {} THEN NoFacts ELSE [directories |-> directories]

\* ------------------------------------------------------- steps of a command

\* removeStaleOutputs: one removal per stale target, in the set's order.
removeStaleOutputs(staleTargets) ==
    [ i \in 1..Len(staleTargets) |->
        [kind |-> "rm", target |-> staleTargets[i], contents |-> Absent] ]

RECURSIVE renderOutputs(_, _, _)
renderOutputs(outputs, templateRoot, context) ==
    IF outputs = << >> THEN << >>
    ELSE << writeRenderedOutput(Head(outputs), templateRoot, context) >>
         \o renderOutputs(Tail(outputs), templateRoot, context)

\* renderSkills that renders with no answers instead of the recorded ones.
RECURSIVE renderSkillsNoAnswers(_, _)
renderSkillsNoAnswers(skills, selectedSkills) ==
    IF selectedSkills = << >> THEN << >>
    ELSE LET selected == Head(selectedSkills) IN
         (IF ~has(skills, selected.id) THEN << >>
          ELSE renderOutputs(find(skills, selected.id).outputs,
                             << "skills", selected.id >>,
                             [skill |-> find(skills, selected.id), answers |-> << >>]))
         \o renderSkillsNoAnswers(skills, Tail(selectedSkills))

RECURSIVE renderSkills(_, _)
renderSkills(skills, selectedSkills) ==
    IF selectedSkills = << >> THEN << >>
    ELSE LET selected == Head(selectedSkills) IN
         (IF ~has(skills, selected.id) THEN << >>
          ELSE renderOutputs(find(skills, selected.id).outputs,
                             << "skills", selected.id >>,
                             [skill |-> find(skills, selected.id),
                              answers |-> selected.answers]))
         \o renderSkills(skills, Tail(selectedSkills))

\* renderHarnesses that goes through the selected harnesses from the last to the first.
RECURSIVE renderHarnessesReversed(_, _)
renderHarnessesReversed(harnesses, selectedHarnesses) ==
    IF selectedHarnesses = << >> THEN << >>
    ELSE LET selected == selectedHarnesses[Len(selectedHarnesses)] IN
         (IF ~has(harnesses, selected.id) THEN << >>
          ELSE renderOutputs(find(harnesses, selected.id).outputs,
                             << "harnesses", selected.id >>,
                             [harness |-> find(harnesses, selected.id)]))
         \o renderHarnessesReversed(harnesses,
                SubSeq(selectedHarnesses, 1, Len(selectedHarnesses) - 1))

RECURSIVE renderHarnesses(_, _)
renderHarnesses(harnesses, selectedHarnesses) ==
    IF selectedHarnesses = << >> THEN << >>
    ELSE LET selected == Head(selectedHarnesses) IN
         (IF ~has(harnesses, selected.id) THEN << >>
          ELSE renderOutputs(find(harnesses, selected.id).outputs,
                             << "harnesses", selected.id >>,
                             [harness |-> find(harnesses, selected.id)]))
         \o renderHarnesses(harnesses, Tail(selectedHarnesses))

\* renderAll that hands the selected skill ids to the harness templates as well.
renderAllHarnessesSeeSkills(skills, harnesses, selectedSkills, selectedHarnesses) ==
    LET hs == renderHarnesses(harnesses, selectedHarnesses) IN
    << writeRenderedOutput(
           [target |-> AGENTS_MD, template |-> "templates/agents.generated.md.hbs"],
           << >>,
           [content |-> buildAgentsMarkdown(Ids(selectedHarnesses), skills, selectedSkills)]) >>
    \o renderSkills(skills, selectedSkills)
    \o [ i \in 1..Len(hs) |->
           [hs[i] EXCEPT !.contents.context =
               [harness |-> @.harness, skills |-> Ids(selectedSkills)]] ]

\* renderAll that leaves the harnesses' outputs out.
renderAllNoHarnesses(skills, harnesses, selectedSkills, selectedHarnesses) ==
    << writeRenderedOutput(
           [target |-> AGENTS_MD, template |-> "templates/agents.generated.md.hbs"],
           << >>,
           [content |-> buildAgentsMarkdown(Ids(selectedHarnesses), skills, selectedSkills)]) >>
    \o renderSkills(skills, selectedSkills)

\* renderAll: ai/agents.md, then every selected skill's outputs, then every selected
\* harness's outputs.
renderAll(skills, harnesses, selectedSkills, selectedHarnesses) ==
    << writeRenderedOutput(
           [target |-> AGENTS_MD, template |-> "templates/agents.generated.md.hbs"],
           << >>,
           [content |-> buildAgentsMarkdown(Ids(selectedHarnesses), skills, selectedSkills)]) >>
    \o renderSkills(skills, selectedSkills)
    \o renderHarnesses(harnesses, selectedHarnesses)

\* writeState that stamps the state as created when it is written.
writeStateAsNew(state) ==
    [kind |-> "write", target |-> STATE_JSON,
     contents |-> jsonStringify([state EXCEPT !.createdAt = state.updatedAt])]

\* writeState: the state file, written through writeJsonFile.
writeState(state) ==
    [kind |-> "write", target |-> STATE_JSON, contents |-> jsonStringify(state)]

\* ------------------------------------------------------- command records

\* No call of buildAgentsMarkdown on its own.
NotAssembling == [kind |-> "none"]

\* No call of loadRegistry on its own has returned yet.
NotLoaded == [kind |-> "none"]

NoBackup == [enabled |-> FALSE, backupRoot |-> << >>]

NoOp ==
    [ cmd |-> "none", action |-> "none", backup |-> NoBackup, aborted |-> FALSE,
      selectedIds |-> << >>, state |-> NoState, nextState |-> NoState,
      previousTargets |-> << >>, nextTargets |-> << >>, staleTargets |-> << >>,
      plan |-> << >>, todo |-> << >>, backedUp |-> FALSE, disk0 |-> << >>,
      log |-> << >> ]

NoFailure ==
    [ cmd |-> "none", action |-> "none", selectedIds |-> << >>,
      state |-> NoState, nextState |-> NoState,
      disk0 |-> << >>, plan |-> << >>, todo |-> << >>, disk |-> << >> ]

\* ---------------------------------------------------------------- prompts

\* What a user may type as the answer to a question.
AnswerValues == {"/web", "/"}

\* A multiselect answers with the chosen values in the order of its choices.
multiselect(choices) ==
    { SelectSeq(choices, LAMBDA m : m.id \in S) : S \in SUBSET Range(Ids(choices)) }

\* askSkillQuestions, when no prompt is aborted: one answer per question, in order.
askSkillQuestions(skill) ==
    { [ i \in 1..Len(skill.questions) |-> [id |-> skill.questions[i].id, value |-> f[i]] ]
        : f \in [1..Len(skill.questions) -> AnswerValues] }

\* The selected-skill entries that a list of manifests can be answered into.
askAll(manifests) ==
    { [ i \in 1..Len(manifests) |->
          [id |-> manifests[i].id, version |-> manifests[i].version, answers |-> a[i]] ]
        : a \in { b \in [1..Len(manifests) -> UNION { askSkillQuestions(manifests[j]) :
                                                          j \in 1..Len(manifests) }] :
                    \A i \in 1..Len(manifests) : b[i] \in askSkillQuestions(manifests[i]) } }

\* Some question is asked, so that a prompt can be aborted with "Cancelled".
asksSomething(manifests) == \E i \in 1..Len(manifests) : Len(manifests[i].questions) > 0

selectHarnessVersions(harnesses, ids) ==
    [ i \in 1..Len(ids) |->
        [id |-> ids[i],
         version |-> IF has(harnesses, ids[i]) THEN find(harnesses, ids[i]).version
                     ELSE "unknown"] ]

\* --------------------------------------------------------------- commands

\* A command that returns (or throws) before it touches the file system.
Return(cmd, action, how, aborted) ==
    /\ op' = [NoOp EXCEPT !.cmd = cmd, !.action = action, !.aborted = aborted,
                          !.state = findManagerState(disk), !.disk0 = disk]
    /\ outcome' = how
    /\ pc' = "done"
    /\ UNCHANGED << disk, backups, failures, lastFailed, clock, registryDir, loaded, assembly >>

\* A command that starts its sequence of file-system steps.
Start(record) ==
    /\ clock < MaxOps
    /\ clock' = clock + 1
    /\ op' = [record EXCEPT !.plan = record.todo]
    /\ pc' = "run"
    /\ outcome' = "running"
    /\ backups' = << >>
    /\ UNCHANGED << disk, failures, lastFailed, registryDir, loaded, assembly >>

Init ==
    /\ disk = << >>
    /\ backups = << >>
    /\ failures = 0
    /\ lastFailed = NoFailure
    /\ clock = 0
    /\ pc = "idle"
    /\ op = NoOp
    /\ outcome = "none"
    /\ registryDir = BuiltInRegistry
    /\ loaded = NotLoaded
    /\ assembly = NotAssembling

\* The init command: the action of the command and runInit.
runInit(enableBackup) ==
    /\ pc = "idle"
    /\ IF isInited(disk)
       THEN Return("init", "none", "alreadyInitialized", FALSE)
       ELSE LET registry == loadRegistry
                facts    == scanProjectFacts(disk)
            IN \E skillsAborted \in BOOLEAN, harnessesAborted \in BOOLEAN :
               \E chosenSkills \in (IF skillsAborted THEN { << >> }
                                    ELSE multiselect(registry.skills)) :
               \E chosenHarnesses \in (IF harnessesAborted THEN { << >> }
                                       ELSE multiselect(registry.harnesses)) :
                  \/ /\ asksSomething(chosenSkills)
                     /\ Return("init", "none", "cancelled", TRUE)
                  \/ \E selectedSkills \in askAll(chosenSkills) :
                       LET now == clock + 1
                           backup == buildBackupOptions(enableBackup, now)
                           selectedHarnesses ==
                               selectHarnessVersions(registry.harnesses, Ids(chosenHarnesses))
                           state ==
                               [ version |-> CURRENT_VERSION, createdAt |-> now,
                                 updatedAt |-> now, projectRoot |-> PROJECT_NAME,
                                 facts |-> facts, skills |-> selectedSkills,
                                 harnesses |-> selectedHarnesses ]
                       IN Start([NoOp EXCEPT
                              !.cmd = "init", !.backup = backup,
                              !.aborted = skillsAborted \/ harnessesAborted,
                              !.state = findManagerState(disk), !.nextState = state,
                              !.nextTargets =
                                  collectOutputTargets(registry.skills, registry.harnesses,
                                      Ids(selectedSkills), Ids(selectedHarnesses)),
                              !.todo = renderAll(registry.skills, registry.harnesses,
                                                 selectedSkills, selectedHarnesses)
                                       \o << writeState(state) >>,
                              !.disk0 = disk])

\* staleOf as a clean sweep: every previous target is stale, the fixed ones too.
staleOfEverything(previousTargets, nextTargets) == previousTargets

\* staleOf with the next targets ignored: every previous declared target is stale.
staleOfAllPrevious(previousTargets, nextTargets) ==
    SelectSeq(previousTargets, LAMBDA t : t \notin {AGENTS_MD, STATE_JSON})

\* The stale set: the previous targets that are no next targets, in their order.
staleOf(previousTargets, nextTargets) ==
    SelectSeq(previousTargets, LAMBDA t : t \notin Range(nextTargets))

\* planSteps without the removals: stale outputs are never deleted.
planStepsNoRemoval(action, staleTargets, rendered, stateWrite) ==
    rendered \o << stateWrite >>

\* planSteps with the state file written first.
planStepsStateFirst(action, staleTargets, rendered, stateWrite) ==
    << stateWrite >>
    \o (IF action = "remove" THEN removeStaleOutputs(staleTargets) ELSE << >>)
    \o rendered

\* planSteps as a clean rebuild: every file about to be rendered is deleted first.
planStepsCleanFirst(action, staleTargets, rendered, stateWrite) ==
    removeStaleOutputs(staleTargets \o [ i \in 1..Len(rendered) |-> rendered[i].target ])
    \o rendered \o << stateWrite >>

\* planSteps with the stale files removed after the rendered outputs are written.
planStepsRemoveLast(action, staleTargets, rendered, stateWrite) ==
    rendered
    \o (IF action = "remove" THEN removeStaleOutputs(staleTargets) ELSE << >>)
    \o << stateWrite >>

\* planSteps that, for an add, first removes every file it is about to render.
planStepsAddRebuilds(action, staleTargets, rendered, stateWrite) ==
    (IF action = "remove" THEN removeStaleOutputs(staleTargets)
     ELSE removeStaleOutputs([ i \in 1..Len(rendered) |-> rendered[i].target ]))
    \o rendered \o << stateWrite >>

\* The order of a command's file-system work: stale removals (computed for a
\* remove only), then renderAll's writes, then the state file.
planSteps(action, staleTargets, rendered, stateWrite) ==
    (IF action = "remove" THEN removeStaleOutputs(staleTargets) ELSE << >>)
    \o rendered \o << stateWrite >>

\* filterChoices that offers, for a remove, every persisted id, in the registry or not.
filterChoicesOfState(manifests, action, currentIds) ==
    IF action = "add" THEN SelectSeq(manifests, LAMBDA m : m.id \notin currentIds)
    ELSE LET ids == SelectSeq(IdOrder, LAMBDA id : id \in currentIds)
         IN [ i \in 1..Len(ids) |-> [id |-> ids[i]] ]

\* filterChoices that offers the whole registry, whatever is selected.
filterChoicesAll(manifests, action, currentIds) == manifests

\* Array.prototype.filter of the registry by membership in the current selection.
filterChoices(manifests, action, currentIds) ==
    SelectSeq(manifests, LAMBDA m : IF action = "add" THEN m.id \notin currentIds
                                    ELSE m.id \in currentIds)

\* skills add / skills remove.
runSkillsAddRemove(action, enableBackup) ==
    /\ pc = "idle"
    /\ LET state == findManagerState(disk) IN
       IF state = NoState
       THEN Return("skills", action, "notInitialized", FALSE)
       ELSE
       LET registry == loadRegistry
           choices  == filterChoices(registry.skills, action, Range(Ids(state.skills)))
       IN
       IF choices = << >>
       THEN Return("skills", action, "noChoices", FALSE)
       ELSE
       \E aborted \in BOOLEAN :
       \E chosen \in (IF aborted THEN { << >> } ELSE multiselect(choices)) :
          IF chosen = << >>
          THEN Return("skills", action, "nothingSelected", aborted)
          ELSE
          \/ /\ action = "add"
             /\ asksSomething(chosen)
             /\ Return("skills", action, "cancelled", TRUE)
          \/ \E added \in (IF action = "add" THEN askAll(chosen) ELSE { << >> }) :
               LET selectedIds == Ids(chosen)
                   previousTargets ==
                       collectOutputTargets(registry.skills, registry.harnesses,
                                            Ids(state.skills), Ids(state.harnesses))
                   updatedSkills ==
                       IF action = "add" THEN state.skills \o added
                       ELSE SelectSeq(state.skills,
                                      LAMBDA sk : sk.id \notin Range(selectedIds))
                   now == clock + 1
                   backup == buildBackupOptions(enableBackup, now)
                   nextTargets ==
                       collectOutputTargets(registry.skills, registry.harnesses,
                                            Ids(updatedSkills), Ids(state.harnesses))
                   staleTargets ==
                       IF action = "remove" THEN staleOf(previousTargets, nextTargets)
                       ELSE << >>
                   nextState ==
                       [state EXCEPT !.updatedAt = now, !.skills = updatedSkills]
               IN Start([NoOp EXCEPT
                      !.cmd = "skills", !.action = action, !.backup = backup,
                      !.selectedIds = selectedIds, !.state = state,
                      !.nextState = nextState,
                      !.previousTargets = previousTargets,
                      !.nextTargets = nextTargets, !.staleTargets = staleTargets,
                      !.todo = planSteps(action, staleTargets,
                                   renderAll(registry.skills, registry.harnesses,
                                             updatedSkills, state.harnesses),
                                   writeState(nextState)),
                      !.disk0 = disk])

\* harnesses add / harnesses remove.
runHarnessesAddRemove(action, enableBackup) ==
    /\ pc = "idle"
    /\ LET state == findManagerState(disk) IN
       IF state = NoState
       THEN Return("harnesses", action, "notInitialized", FALSE)
       ELSE
       LET registry == loadRegistry
           choices  == filterChoices(registry.harnesses, action,
                                     Range(Ids(state.harnesses)))
       IN
       IF choices = << >>
       THEN Return("harnesses", action, "noChoices", FALSE)
       ELSE
       \E aborted \in BOOLEAN :
       \E chosen \in (IF aborted THEN { << >> } ELSE multiselect(choices)) :
          IF chosen = << >>
          THEN Return("harnesses", action, "nothingSelected", aborted)
          ELSE
          LET selectedIds == Ids(chosen)
              previousTargets ==
                  collectOutputTargets(registry.skills, registry.harnesses,
                                       Ids(state.skills), Ids(state.harnesses))
              updatedHarnesses ==
                  IF action = "add"
                  THEN state.harnesses \o selectHarnessVersions(registry.harnesses, selectedIds)
                  ELSE SelectSeq(state.harnesses,
                                 LAMBDA h : h.id \notin Range(selectedIds))
              now == clock + 1
              backup == buildBackupOptions(enableBackup, now)
              nextTargets ==
                  collectOutputTargets(registry.skills, registry.harnesses,
                                       Ids(state.skills), Ids(updatedHarnesses))
              staleTargets ==
                  IF action = "remove" THEN staleOf(previousTargets, nextTargets)
                  ELSE << >>
              nextState ==
                  [state EXCEPT !.updatedAt = now, !.harnesses = updatedHarnesses]
          IN Start([NoOp EXCEPT
                 !.cmd = "harnesses", !.action = action, !.backup = backup,
                 !.selectedIds = selectedIds, !.state = state,
                 !.nextState = nextState,
                 !.previousTargets = previousTargets,
                 !.nextTargets = nextTargets, !.staleTargets = staleTargets,
                 !.todo = planSteps(action, staleTargets,
                              renderAll(registry.skills, registry.harnesses,
                                        state.skills, updatedHarnesses),
                              writeState(nextState)),
                 !.disk0 = disk])

\* doctor: reads the state and the files, writes nothing.
runDoctor ==
    /\ pc = "idle"
    /\ IF findManagerState(disk) = NoState
       THEN Return("doctor", "none", "notInitialized", FALSE)
       ELSE Return("doctor", "none", "reported", FALSE)

\* ------------------------------------------------------ file-system steps

\* The step at the head of the running command, and whether it copies a backup first.
head == op.todo[1]

headPath == projectPath(head.target)

headBacksUp ==
    IF head.kind = "rm" THEN backupExistingFileBacksUp(disk, headPath, op.backup)
    ELSE writeFileAlwaysBacksUp(disk, headPath, op.backup)

\* The head step is done: the command goes on, or ends when nothing is left.
stepDone ==
    /\ op' = [op EXCEPT !.todo = Tail(@), !.backedUp = FALSE,
                        !.log = Append(@, [kind |-> head.kind, target |-> head.target,
                                           existed |-> pathExists(disk, headPath)])]
    /\ pc' = IF Len(op.todo) = 1 THEN "done" ELSE "run"
    /\ outcome' = IF Len(op.todo) = 1 THEN "ok" ELSE "running"
    /\ UNCHANGED << backups, failures, lastFailed, clock, registryDir, loaded, assembly >>

\* backupExistingFile / the first half of writeFileAlways: copy the existing file.
stepBackup ==
    /\ pc = "run"
    /\ ~op.backedUp
    /\ headBacksUp
    /\ backups' = copyToBackup(backups, disk, headPath, op.backup)
    /\ op' = [op EXCEPT !.backedUp = TRUE,
                        !.log = Append(@, [kind |-> "backup", target |-> head.target,
                                           existed |-> TRUE])]
    /\ UNCHANGED << disk, failures, lastFailed, clock, pc, outcome, registryDir, loaded, assembly >>

\* removeStaleOutputs: fs.rm of one stale target.
stepRemove ==
    /\ pc = "run"
    /\ head.kind = "rm"
    /\ op.backedUp \/ ~headBacksUp
    /\ ~fsRmThrows(disk, headPath)
    /\ disk' = fsRm(disk, headPath)
    /\ stepDone

\* The second half of writeFileAlways: fs.writeFile of the contents.
stepWrite ==
    /\ pc = "run"
    /\ head.kind = "write"
    /\ op.backedUp \/ ~headBacksUp
    /\ disk' = fsWriteFile(disk, headPath, head.contents)
    /\ stepDone

\* An I/O error in the step at hand: the command aborts, nothing is rolled back.
ioError ==
    /\ pc = "run"
    /\ failures < MaxFailures
    /\ failures' = failures + 1
    /\ pc' = "done"
    /\ outcome' = "ioError"
    /\ UNCHANGED << disk, backups, clock, op, registryDir, loaded, assembly >>

stepFail ==
    /\ ioError
    /\ UNCHANGED lastFailed

\* The same I/O error, with the aborted command remembered for the re-run after it.
stepFailRecorded ==
    /\ ioError
    /\ lastFailed' = [ cmd |-> op.cmd, action |-> op.action,
                        selectedIds |-> op.selectedIds, state |-> op.state,
                        nextState |-> op.nextState, disk0 |-> op.disk0,
                        plan |-> op.plan, todo |-> op.todo, disk |-> disk ]

\* The process of the command ends; the next command starts from the files alone.
exit ==
    /\ pc = "done"
    /\ pc' = "idle"
    /\ op' = NoOp
    /\ outcome' = "none"
    /\ backups' = << >>
    /\ UNCHANGED << disk, failures, lastFailed, clock, registryDir, loaded, assembly >>

Next ==
    \/ \E enableBackup \in BOOLEAN : runInit(enableBackup)
    \/ \E action \in {"add", "remove"}, enableBackup \in BOOLEAN :
          runSkillsAddRemove(action, enableBackup)
    \/ \E action \in {"add", "remove"}, enableBackup \in BOOLEAN :
          runHarnessesAddRemove(action, enableBackup)
    \/ runDoctor
    \/ stepBackup
    \/ stepRemove
    \/ stepWrite
    \/ stepFail
    \/ exit

Spec == Init /\ [][Next]_vars

\* Another registry every manifest of which passes its schema and the id check.
CursorRegistry == [ skills |-> << Backend >>, harnesses |-> << Cursor >> ]

\* The registries the commands are run against.
ValidRegistries == { BuiltInRegistry, CursorRegistry }

\* An untouched project next to any of these registries.
InitAnyRegistry ==
    /\ disk = << >>
    /\ backups = << >>
    /\ failures = 0
    /\ lastFailed = NoFailure
    /\ clock = 0
    /\ pc = "idle"
    /\ op = NoOp
    /\ outcome = "none"
    /\ registryDir \in ValidRegistries
    /\ loaded = NotLoaded
    /\ assembly = NotAssembling

SpecAnyRegistry == InitAnyRegistry /\ [][Next]_vars

\* The built-in registry after the directories of frontend-design and opencode
\* are deleted from it.
ReducedRegistry == [ skills |-> << Planner >>, harnesses |-> << Codex >> ]

\* Between two commands the registry root loses directories; the next command
\* loads it afresh.
changeRegistry ==
    /\ pc = "idle"
    /\ registryDir = BuiltInRegistry
    /\ registryDir' = ReducedRegistry
    /\ UNCHANGED << disk, backups, failures, lastFailed, clock, pc, op, outcome,
                    loaded, assembly >>

NextFreshRegistry ==
    \/ Next
    \/ changeRegistry

SpecFreshRegistry == Init /\ [][NextFreshRegistry]_vars

\* The manifests a registry directory may hold, and the registries made of them.
SkillDirs == { FrontendDesign, Planner, PlannerFork, BrokenSkill }

HarnessDirs == { Codex, Opencode, CodexFork, PlannerHarness, BrokenHarness }

RegistryDirs ==
    { [ skills |-> sk, harnesses |-> h ] :
        sk \in UNION { [1..n -> SkillDirs] : n \in 0..MaxDirs },
        h \in UNION { [1..n -> HarnessDirs] : n \in 0..MaxDirs } }

\* Any registry, before it is loaded, next to a project no command has touched.
InitRegistry ==
    /\ disk = << >>
    /\ backups = << >>
    /\ failures = 0
    /\ lastFailed = NoFailure
    /\ clock = 0
    /\ pc = "idle"
    /\ op = NoOp
    /\ outcome = "none"
    /\ registryDir \in RegistryDirs
    /\ loaded = NotLoaded
    /\ assembly = NotAssembling

\* A manifest load of Promise.all that has not settled.
Pending == [kind |-> "pending"]

\* loadRegistry is called: loadSkills and loadHarnesses list their directories and
\* start one load per directory, all at once.
startLoadRegistry ==
    /\ loaded = NotLoaded
    /\ loaded' = [ kind |-> "loading",
                   skills |-> [ i \in 1..Len(registryDir.skills) |-> Pending ],
                   harnesses |-> [ i \in 1..Len(registryDir.harnesses) |-> Pending ] ]
    /\ UNCHANGED << disk, backups, failures, lastFailed, clock, pc, op, outcome,
                    registryDir, assembly >>

\* One skill manifest is read and parsed, in any order: its slot of Promise.all is
\* filled, or Promise.all rejects and loadRegistry throws at once.
readSkillManifest(i) ==
    /\ loaded.kind = "loading"
    /\ loaded.skills[i] = Pending
    /\ loaded' = IF SkillManifestSchema(registryDir.skills[i])
                 THEN [loaded EXCEPT !.skills[i] =
                                        SkillManifestSchemaParse(registryDir.skills[i])]
                 ELSE [ kind |-> "ZodError", path |-> "manifest" ]
    /\ UNCHANGED << disk, backups, failures, lastFailed, clock, pc, op, outcome,
                    registryDir, assembly >>

readHarnessManifest(i) ==
    /\ loaded.kind = "loading"
    /\ loaded.harnesses[i] = Pending
    /\ loaded' = IF HarnessManifestSchema(registryDir.harnesses[i])
                 THEN [loaded EXCEPT !.harnesses[i] =
                                        HarnessManifestSchemaParse(registryDir.harnesses[i])]
                 ELSE [ kind |-> "ZodError", path |-> "manifest" ]
    /\ UNCHANGED << disk, backups, failures, lastFailed, clock, pc, op, outcome,
                    registryDir, assembly >>

\* Every load has settled: both lists are sorted, the ids are checked, and
\* loadRegistry returns the registry or throws.
returnRegistry ==
    /\ loaded.kind = "loading"
    /\ \A i \in 1..Len(loaded.skills) : loaded.skills[i] # Pending
    /\ \A i \in 1..Len(loaded.harnesses) : loaded.harnesses[i] # Pending
    /\ loaded' =
          IF assertValidRegistryIds(sortById(loaded.skills), sortById(loaded.harnesses)) # "ok"
          THEN [ kind |-> "ZodError",
                 path |-> assertValidRegistryIds(sortById(loaded.skills),
                                                 sortById(loaded.harnesses)) ]
          ELSE [ kind |-> "registry", skills |-> sortById(loaded.skills),
                 harnesses |-> sortById(loaded.harnesses) ]
    /\ UNCHANGED << disk, backups, failures, lastFailed, clock, pc, op, outcome,
                    registryDir, assembly >>

NextRegistry ==
    \/ startLoadRegistry
    \/ \E i \in 1..Len(registryDir.skills) : readSkillManifest(i)
    \/ \E i \in 1..Len(registryDir.harnesses) : readHarnessManifest(i)
    \/ returnRegistry

SpecRegistry == InitRegistry /\ [][NextRegistry]_vars

\* The same program, observed with the aborted command kept in lastFailed.
NextRecorded ==
    \/ \E enableBackup \in BOOLEAN : runInit(enableBackup)
    \/ \E action \in {"add", "remove"}, enableBackup \in BOOLEAN :
          runSkillsAddRemove(action, enableBackup)
    \/ \E action \in {"add", "remove"}, enableBackup \in BOOLEAN :
          runHarnessesAddRemove(action, enableBackup)
    \/ runDoctor
    \/ stepBackup
    \/ stepRemove
    \/ stepWrite
    \/ stepFailRecorded
    \/ exit

SpecRetry == Init /\ [][NextRecorded]_vars

TypeOK ==
    /\ pc \in {"idle", "run", "done"}
    /\ clock \in 0..MaxOps
    /\ failures \in 0..MaxFailures
    /\ pc = "run" => op.todo # << >>
    /\ pc = "idle" => op = NoOp

\* ------------------------------------------------------------- properties

\* targetSet(selection): collectOutputTargets of a persisted state's ids, as a set.
targetSet(state) ==
    IF state = NoState THEN {}
    ELSE Range(collectOutputTargets(loadRegistry.skills, loadRegistry.harnesses,
                                    Ids(state.skills), Ids(state.harnesses)))

\* Every target the registry declares, and the two fixed ones.
declaredTargets ==
    Range(collectOutputTargets(loadRegistry.skills, loadRegistry.harnesses,
                               Ids(loadRegistry.skills), Ids(loadRegistry.harnesses)))

\* The command has got past its prompts and has planned its file-system steps.
started == pc \in {"run", "done"} /\ op.plan # << >>

\* The targets whose existing file the command has removed so far.
removedSoFar ==
    { op.log[i].target : i \in { j \in 1..Len(op.log) :
                                   op.log[j].kind = "rm" /\ op.log[j].existed } }

\* The files of the project that existed when the command started and are gone.
goneSoFar == { p \in DOMAIN op.disk0 : p \notin DOMAIN disk }

\* targetSet(S1) - targetSet(S2), restricted to the files that existed at the start.
existingDelta ==
    { t \in targetSet(op.state) \ targetSet(op.nextState) :
        projectPath(t) \in DOMAIN op.disk0 }

\* C1: in every skills or harnesses add/remove from persisted selection S1 to S2,
\* only files of targetSet(S1) - targetSet(S2) that existed are ever deleted, and a
\* completed operation has deleted exactly those.
C1_DeltaCorrectness ==
    (started /\ op.cmd \in {"skills", "harnesses"}) =>
        /\ removedSoFar \subseteq existingDelta
        /\ goneSoFar \subseteq { projectPath(t) : t \in existingDelta }
        /\ outcome = "ok" => removedSoFar = existingDelta

\* C1 witness: opencode is removed while codex stays: its own file is deleted and
\* the shared AGENTS.md, a previous target, is still there.
C1_Witness ==
    /\ pc = "done" /\ outcome = "ok"
    /\ op.cmd = "harnesses" /\ op.action = "remove"
    /\ removedSoFar = {".opencode/ai-manager.md"}
    /\ "AGENTS.md" \in targetSet(op.state) \cap targetSet(op.nextState)
    /\ projectPath("AGENTS.md") \in DOMAIN disk

\* The declared targets that exist as files of the project.
declaredOnDisk == { t \in declaredTargets : projectPath(t) \in DOMAIN disk }

stateFile(d) ==
    IF projectPath(STATE_JSON) \in DOMAIN d THEN d[projectPath(STATE_JSON)] ELSE Absent

\* A stale removal or a rendered write of the command has not been done yet.
pendingWork == \E i \in 1..Len(op.todo) : op.todo[i].target # STATE_JSON

\* C4: while a removal or a rendered write of an init, add or remove is still to be
\* done, also after an I/O error aborted the command there, ai/ai-manager.json
\* holds exactly what it held when the command started.
C4_StateWrittenLast ==
    (started /\ pendingWork) => stateFile(disk) = stateFile(op.disk0)

\* C4 witness: a skills command on an initialized project is aborted by an I/O
\* error after some of its steps, with work left.
C4_Witness ==
    /\ pc = "done" /\ outcome = "ioError"
    /\ op.cmd = "skills" /\ op.log # << >> /\ pendingWork
    /\ stateFile(disk) # Absent

\* C5 as stated: at every point of an init, add or remove, every file that existed
\* when the command started still exists.
C5_AlwaysSuperset ==
    started => DOMAIN op.disk0 \subseteq DOMAIN disk

\* The stale targets of the running command: targetSet(previous) - targetSet(next).
staleDelta ==
    IF op.cmd = "init" THEN {} ELSE targetSet(op.state) \ targetSet(op.nextState)

\* C5 amended: at every point of an init, add or remove, every file that existed
\* when the command started still exists, except the stale targets of a remove.
C5_SupersetButStale ==
    started =>
        (DOMAIN op.disk0 \ { projectPath(t) : t \in staleDelta }) \subseteq DOMAIN disk

\* C5 witness: in the middle of a remove, a stale file is gone and a rendered file
\* has been written.
C5_Witness ==
    /\ pc = "run" /\ op.action = "remove"
    /\ goneSoFar # {}
    /\ \E i \in 1..Len(op.log) : op.log[i].kind = "write"

\* init was invoked on a project that held both ai/agents.md and ai/ai-manager.json.
initOnInitialized ==
    /\ pc \in {"run", "done"} /\ op.cmd = "init"
    /\ projectPath(AGENTS_MD) \in DOMAIN op.disk0
    /\ projectPath(STATE_JSON) \in DOMAIN op.disk0

\* C7: whenever both ai/agents.md and ai/ai-manager.json exist, init is refused
\* and has written, overwritten and removed nothing, backups included.
C7_InitRefused ==
    initOnInitialized =>
        /\ outcome = "alreadyInitialized"
        /\ disk = op.disk0 /\ op.log = << >> /\ backups = << >>

\* C7 witness: a second init, after an init that completed with a harness selected,
\* has been refused.
C7_Witness ==
    /\ initOnInitialized /\ pc = "done" /\ outcome = "alreadyInitialized"
    /\ failures = 0 /\ clock = 1
    /\ projectPath("AGENTS.md") \in DOMAIN disk

\* skills, harnesses or doctor was invoked on a project without ai/ai-manager.json.
withoutStateFile ==
    /\ pc \in {"run", "done"} /\ op.cmd \in {"skills", "harnesses", "doctor"}
    /\ projectPath(STATE_JSON) \notin DOMAIN op.disk0

\* C8: skills add/remove, harnesses add/remove and doctor on a project without a
\* state file report "not initialized" and write, overwrite and remove nothing.
C8_NotInitialized ==
    withoutStateFile =>
        /\ outcome = "notInitialized"
        /\ disk = op.disk0 /\ op.log = << >> /\ backups = << >>

\* C8 witness: skills add on a project that holds generated files of an init an I/O
\* error aborted, and no state file.
C8_Witness ==
    /\ withoutStateFile /\ pc = "done" /\ outcome = "notInitialized"
    /\ op.cmd = "skills" /\ op.action = "add"
    /\ projectPath(AGENTS_MD) \in DOMAIN disk

\* C9 as stated: a command in which the user aborted a prompt ends without having
\* written, overwritten or removed a project file, the state file included.
C9_AbortLeavesNoTrace ==
    (pc \in {"run", "done"} /\ op.aborted) =>
        /\ disk = op.disk0 /\ op.log = << >> /\ backups = << >>

\* The backup path of a target of the running command.
backupPathOf(target) == resolveBackupPath(projectPath(target), op.backup.backupRoot)

\* C10: with backups enabled every overwrite or removal of a target file that
\* exists comes right after a copy of that file to its backup path, and the copy
\* holds the file's current contents; with backups disabled the backup tree of
\* the command stays empty.
C10_BackupBeforeTouch ==
    /\ ~op.backup.enabled => backups = << >>
    /\ op.backup.enabled =>
          \A i \in 1..Len(op.log) :
             (op.log[i].kind \in {"rm", "write"} /\ op.log[i].existed) =>
                /\ i > 1
                /\ op.log[i - 1].kind = "backup"
                /\ op.log[i - 1].target = op.log[i].target
    /\ (pc = "run" /\ op.backedUp) =>
          /\ backupPathOf(head.target) \in DOMAIN backups
          /\ backups[backupPathOf(head.target)] = disk[headPath]

\* C10 witness: a remove with backups enabled has completed; it deleted a file that
\* existed and overwrote one, and the backup tree holds the deleted file's copy.
C10_Witness ==
    /\ pc = "done" /\ outcome = "ok" /\ op.backup.enabled /\ op.action = "remove"
    /\ \E i, j \in 1..Len(op.log) :
          /\ op.log[i].kind = "rm" /\ op.log[i].existed
          /\ op.log[j].kind = "write" /\ op.log[j].existed
          /\ backupPathOf(op.log[i].target) \in DOMAIN backups
          /\ backups[backupPathOf(op.log[i].target)] = op.disk0[projectPath(op.log[i].target)]

\* The running command repeats the request of the command an I/O error aborted:
\* same command, same previous state, same choice and same answers, and it started
\* from the files the aborted command left.
sameRequest ==
    /\ started /\ lastFailed.cmd = op.cmd
    /\ lastFailed.action = op.action
    /\ lastFailed.selectedIds = op.selectedIds
    /\ lastFailed.state = op.state
    /\ lastFailed.nextState.skills = op.nextState.skills
    /\ lastFailed.nextState.harnesses = op.nextState.harnesses
    /\ lastFailed.disk = op.disk0

\* The files of a map other than ai/ai-manager.json.
notState(d) == [ p \in DOMAIN d \ {projectPath(STATE_JSON)} |-> d[p] ]

\* A second reconciliation has completed after a first one that did all its removals
\* and writes and was aborted in the write of the state file.
reconciledTwice ==
    /\ sameRequest /\ pc = "done" /\ outcome = "ok"
    /\ Len(lastFailed.todo) = 1

\* C3 as stated: the second of two reconciliations with the same selection and
\* answers from the same previous state leaves every file but the state file as the
\* first left it, and persists the state the first would have but for updatedAt.
C3_Idempotent ==
    reconciledTwice =>
        /\ notState(disk) = notState(lastFailed.disk)
        /\ stateFile(disk) =
              [kind |-> "json",
               data |-> [lastFailed.nextState EXCEPT !.updatedAt = op.nextState.updatedAt]]

\* C3 amended: the same for add and remove; for an init, which has no previous
\* state, the files are identical and the persisted state has the same version,
\* project root, skills and harnesses (createdAt is set anew and the facts are
\* scanned again).
C3_IdempotentButInitStamps ==
    reconciledTwice =>
        /\ notState(disk) = notState(lastFailed.disk)
        /\ IF op.cmd = "init"
           THEN /\ stateFile(disk).kind = "json"
                /\ stateFile(disk).data.version = lastFailed.nextState.version
                /\ stateFile(disk).data.projectRoot = lastFailed.nextState.projectRoot
                /\ stateFile(disk).data.skills = lastFailed.nextState.skills
                /\ stateFile(disk).data.harnesses = lastFailed.nextState.harnesses
           ELSE stateFile(disk) =
                  [kind |-> "json",
                   data |-> [lastFailed.nextState
                               EXCEPT !.updatedAt = op.nextState.updatedAt]]

\* C3 witness: skills add of frontend-design, with its answer, reconciled twice.
C3_Witness ==
    /\ reconciledTwice /\ op.cmd = "skills" /\ op.action = "add"
    /\ op.selectedIds = << "frontend-design" >>
    /\ projectPath("ai/skills/frontend-design-skill.md") \in DOMAIN disk

\* The files one uninterrupted run of a plan leaves, from the files it starts with.
RECURSIVE uninterrupted(_, _)
uninterrupted(d, steps) ==
    IF steps = << >> THEN d
    ELSE LET p == projectPath(Head(steps).target) IN
         uninterrupted(
             IF Head(steps).kind = "rm" THEN [ q \in DOMAIN d \ {p} |-> d[q] ]
             ELSE (p :> Head(steps).contents) @@ d,
             Tail(steps))

\* An add or remove has completed as the re-run of one an I/O error aborted.
recovered ==
    /\ sameRequest /\ pc = "done" /\ outcome = "ok"
    /\ op.cmd \in {"skills", "harnesses"}

\* C6: the re-run to completion of an add or remove that failed after any prefix of
\* its steps leaves the files one uninterrupted run would have left, and the state
\* that run would have persisted but for updatedAt.
C6_RerunRecovers ==
    recovered =>
        LET want == uninterrupted(lastFailed.disk0, lastFailed.plan) IN
        /\ notState(disk) = notState(want)
        /\ stateFile(disk) =
              [kind |-> "json",
               data |-> [stateFile(want).data EXCEPT !.updatedAt = op.nextState.updatedAt]]

\* C6 witness: a remove failed after it had deleted a stale file that existed and
\* before all its writes, and its re-run has completed.
C6_Witness ==
    /\ recovered /\ op.action = "remove"
    /\ lastFailed.plan[1].kind = "rm"
    /\ projectPath(lastFailed.plan[1].target) \in DOMAIN lastFailed.disk0
    /\ Len(lastFailed.todo) < Len(lastFailed.plan)
    /\ Len(lastFailed.todo) > 1
    /\ lastFailed.todo[1].kind = "write"

\* C11 as stated: every backup copy of the running command lies at
\* <projectRoot>/ai/.backups/<timestamp>/p for a declared target p, and holds a
\* file of that target.
C11_BackupMirrorsRelativePath ==
    \A q \in DOMAIN backups :
        \E t \in declaredTargets : q = op.backup.backupRoot \o << t >>

\* The state persisted in ai/ai-manager.json when the running command started.
persisted0 == stateFile(op.disk0).data

\* An add or remove has planned its steps.
reconciling == started /\ op.cmd \in {"skills", "harnesses"}

\* The targets the running command's plan removes, and those it writes.
planRemoves == { op.plan[i].target : i \in { j \in 1..Len(op.plan) : op.plan[j].kind = "rm" } }

planWrites == { op.plan[i].target : i \in { j \in 1..Len(op.plan) : op.plan[j].kind = "write" } }

\* The list an add or remove of the chosen ids makes of a persisted list.
listAfter(list, nextList) ==
    IF op.action = "add"
    THEN /\ Len(nextList) = Len(list) + Len(op.selectedIds)
         /\ SubSeq(nextList, 1, Len(list)) = list
         /\ Ids(SubSeq(nextList, Len(list) + 1, Len(nextList))) = op.selectedIds
    ELSE nextList = SelectSeq(list, LAMBDA e : e.id \notin Range(op.selectedIds))

\* C12: what an add or remove plans is a function of the persisted state, the
\* registry and the user's choice alone, whichever target files exist: the next
\* selection, the removals (targetSet(previous) - targetSet(next) for a remove, none
\* for an add) and the writes (targetSet(next)).
C12_PlanFromStateOnly ==
    reconciling =>
        /\ op.state = persisted0
        /\ IF op.cmd = "skills"
           THEN /\ listAfter(persisted0.skills, op.nextState.skills)
                /\ op.nextState.harnesses = persisted0.harnesses
           ELSE /\ listAfter(persisted0.harnesses, op.nextState.harnesses)
                /\ op.nextState.skills = persisted0.skills
        /\ planRemoves = IF op.action = "remove"
                         THEN targetSet(persisted0) \ targetSet(op.nextState) ELSE {}
        /\ planWrites = targetSet(op.nextState)

\* C12 witness: a harnesses add planned, with skills selected, on a project where
\* a file of the persisted target set is missing (an earlier command was aborted).
C12_Witness ==
    /\ reconciling /\ op.cmd = "harnesses" /\ op.action = "add"
    /\ \E t \in targetSet(persisted0) \ {"AGENTS.md"} : projectPath(t) \notin DOMAIN op.disk0
    /\ Len(persisted0.skills) > 0

\* The output targets the manifests of a list declare for the ids of a selection.
declaredBy(manifests, selection) ==
    UNION { { m.outputs[i].target : i \in 1..Len(m.outputs) } :
            m \in { n \in Range(manifests) : n.id \in Range(Ids(selection)) } }

\* C13: the target set a command computes for its next selection is the union of
\* the output targets declared by the selected skills and harnesses plus
\* ai/agents.md and ai/ai-manager.json, each once; for the empty selection it is
\* exactly those two.
C13_TargetSetIsUnion ==
    (started /\ op.cmd \in {"init", "skills", "harnesses"}) =>
        /\ Range(op.nextTargets) =
              declaredBy(loadSkills, op.nextState.skills)
              \cup declaredBy(loadHarnesses, op.nextState.harnesses)
              \cup {AGENTS_MD, STATE_JSON}
        /\ Len(op.nextTargets) = Cardinality(Range(op.nextTargets))
        /\ (op.nextState.skills = << >> /\ op.nextState.harnesses = << >>) =>
              Range(op.nextTargets) = {AGENTS_MD, STATE_JSON}

\* C13 witness: an init with both skills and both harnesses selected; AGENTS.md,
\* declared by both harnesses, is one of six targets.
C13_Witness ==
    /\ started /\ op.cmd = "init"
    /\ Len(op.nextState.skills) = 2 /\ Len(op.nextState.harnesses) = 2
    /\ Len(op.nextTargets) = 6
    /\ "AGENTS.md" \in Range(op.nextTargets)

\* C14: after a successful init with any selection, ai/agents.md, ai/ai-manager.json
\* and every output target declared by a selected skill or a selected harness exist.
C14_InitCreatesTargets ==
    (pc = "done" /\ outcome = "ok" /\ op.cmd = "init") =>
        \A t \in declaredBy(loadSkills, op.nextState.skills)
                 \cup declaredBy(loadHarnesses, op.nextState.harnesses)
                 \cup {AGENTS_MD, STATE_JSON} :
            projectPath(t) \in DOMAIN disk

\* C14 witness: an init with both skills and both harnesses has completed and the
\* project holds the six files.
C14_Witness ==
    /\ pc = "done" /\ outcome = "ok" /\ op.cmd = "init"
    /\ Ids(op.nextState.skills) = << "frontend-design", "planner" >>
    /\ Ids(op.nextState.harnesses) = << "codex", "opencode" >>
    /\ Cardinality(DOMAIN disk) = 6
    /\ projectPath(".opencode/ai-manager.md") \in DOMAIN disk

\* A skills remove has completed.
skillRemoved == pc = "done" /\ outcome = "ok" /\ op.cmd = "skills" /\ op.action = "remove"

\* The output targets of the skills the running remove takes out of the selection.
removedSkillTargets ==
    declaredBy(loadSkills, SelectSeq(op.state.skills,
                                     LAMBDA sk : sk.id \in Range(op.selectedIds)))

\* ai/agents.md as renderAll writes it for a persisted state.
agentsDocument(state) ==
    renderTemplateFile(<< "templates/agents.generated.md.hbs" >>,
        [content |-> buildAgentsMarkdown(Ids(state.harnesses), loadSkills, state.skills)])

\* What a completed skills remove has done: the removed skills' files are gone,
\* ai/agents.md is the document of the next selection, and every other target of
\* the next target set holds what it held when the command started.
removeFrame ==
    /\ \A t \in removedSkillTargets : projectPath(t) \notin DOMAIN disk
    /\ disk[projectPath(AGENTS_MD)] = agentsDocument(op.nextState)
    /\ \A t \in targetSet(op.nextState) \ {AGENTS_MD, STATE_JSON} :
          /\ projectPath(t) \in DOMAIN op.disk0
          /\ disk[projectPath(t)] = op.disk0[projectPath(t)]

reconciled == pc = "done" /\ outcome = "ok" /\ op.cmd \in {"skills", "harnesses"}

\* C16: the state an add or remove persists keeps createdAt, version, projectRoot
\* and facts of the state persisted before, has a later updatedAt, and differs from
\* it in the list the command operates on only: a skills command keeps the
\* harnesses list, a harnesses command keeps the skills list.
C16_NextStateFrame ==
    reconciled =>
        LET before == stateFile(op.disk0).data
            after  == stateFile(disk).data
        IN /\ after.createdAt = before.createdAt
           /\ after.version = before.version
           /\ after.projectRoot = before.projectRoot
           /\ after.facts = before.facts
           /\ after.updatedAt > before.updatedAt
           /\ IF op.cmd = "skills"
              THEN after.harnesses = before.harnesses /\ after.skills # before.skills
              ELSE after.skills = before.skills /\ after.harnesses # before.harnesses

\* C16 witness: a harnesses add has completed on a state created earlier, with a
\* skill selected and facts recorded.
C16_Witness ==
    /\ reconciled /\ op.cmd = "harnesses" /\ op.action = "add"
    /\ stateFile(disk).data.createdAt < stateFile(disk).data.updatedAt
    /\ stateFile(disk).data.skills # << >>
    /\ stateFile(disk).data.facts # NoFacts

\* The entries of the persisted skills list that the running command does not remove.
staying ==
    SelectSeq(persisted0.skills,
              LAMBDA sk : ~(op.cmd = "skills" /\ op.action = "remove"
                            /\ sk.id \in Range(op.selectedIds)))

\* The targets the running command has written so far.
writtenTargets ==
    { op.log[i].target : i \in { j \in 1..Len(op.log) : op.log[j].kind = "write" } }

\* C17: in every add or remove each skill that stays selected is in the next state
\* with the answers and the version recorded before, and once the command has
\* completed each of its declared outputs has been written by it, rendered from the
\* skill's manifest and those recorded answers.
C17_CarriedSkills ==
    reconciling =>
        \A k \in 1..Len(staying) :
            /\ staying[k] \in Range(op.nextState.skills)
            /\ \A e \in Range(op.nextState.skills) : e.id = staying[k].id => e = staying[k]
            /\ outcome = "ok" =>
                 \A o \in Range(find(loadSkills, staying[k].id).outputs) :
                    /\ o.target \in writtenTargets
                    /\ disk[projectPath(o.target)] =
                          renderTemplateFile(<< "skills", staying[k].id, o.template >>,
                              [skill |-> find(loadSkills, staying[k].id),
                               answers |-> staying[k].answers])

\* C17 witness: planner has been added while frontend-design, with its recorded
\* answer, stayed: its file existed before and has been written again.
C17_Witness ==
    /\ reconciled /\ op.cmd = "skills" /\ op.action = "add"
    /\ op.selectedIds = << "planner" >>
    /\ Len(staying) = 1 /\ staying[1].id = "frontend-design"
    /\ Len(staying[1].answers) = 1
    /\ projectPath("ai/skills/frontend-design-skill.md") \in DOMAIN op.disk0
    /\ "ai/skills/frontend-design-skill.md" \in writtenTargets

\* C18: no step of an init, add or remove deletes ai/agents.md or
\* ai/ai-manager.json, and neither is in the stale set or among the removals a
\* command plans; so a state file that exists keeps existing.
C18_FixedTargetsNeverDeleted ==
    [][ \A t \in {AGENTS_MD, STATE_JSON} :
          /\ projectPath(t) \in DOMAIN disk => projectPath(t) \in DOMAIN disk'
          /\ t \notin Range(op'.staleTargets)
          /\ t \notin planRemoves' ]_vars

\* C18 witness: a remove with a non-empty stale set has completed on a project that
\* held both fixed files, and holds them still.
C18_Witness ==
    /\ pc = "done" /\ outcome = "ok" /\ op.action = "remove"
    /\ op.staleTargets # << >>
    /\ {projectPath(AGENTS_MD), projectPath(STATE_JSON)} \subseteq DOMAIN op.disk0
    /\ {projectPath(AGENTS_MD), projectPath(STATE_JSON)} \subseteq DOMAIN disk

\* No two entries of a list have the same id.
distinctIds(list) == Cardinality(Range(Ids(list))) = Len(list)

\* C19: the state persisted in ai/ai-manager.json, and the state a command is about
\* to persist, never hold two skills with the same id or two harnesses with the
\* same id.
C19_NoDuplicateIds ==
    /\ stateFile(disk) # Absent =>
          /\ distinctIds(stateFile(disk).data.skills)
          /\ distinctIds(stateFile(disk).data.harnesses)
    /\ started =>
          /\ distinctIds(op.nextState.skills)
          /\ distinctIds(op.nextState.harnesses)

\* C19 witness: after an add that has completed, the persisted state lists both
\* skills and both harnesses.
C19_Witness ==
    /\ reconciled /\ op.action = "add"
    /\ Len(stateFile(disk).data.skills) = 2
    /\ Len(stateFile(disk).data.harnesses) = 2

\* The registry holds a manifest file that does not validate.
hasBroken ==
    BrokenSkill \in Range(registryDir.skills) \/ BrokenHarness \in Range(registryDir.harnesses)

\* C20: loadRegistry throws, and returns no registry, exactly when two skill
\* manifests share an id or two harness manifests share an id; a skill and a
\* harness with the same id load.
C20_DuplicateIdsRejected ==
    (loaded.kind \in {"registry", "ZodError"} /\ ~hasBroken) =>
        /\ (~distinctIds(registryDir.skills) \/ ~distinctIds(registryDir.harnesses)) =>
              loaded.kind = "ZodError"
        /\ (distinctIds(registryDir.skills) /\ distinctIds(registryDir.harnesses)) =>
              /\ loaded.kind = "registry"
              /\ Len(loaded.skills) = Len(registryDir.skills)
              /\ Len(loaded.harnesses) = Len(registryDir.harnesses)

\* C20 witness: two harness directories with the id codex next to two skills with
\* distinct ids: loadRegistry has thrown.
C20_Witness ==
    /\ loaded.kind = "ZodError" /\ loaded.path = "harnesses"
    /\ Ids(registryDir.harnesses) = << "codex", "codex" >>
    /\ Len(registryDir.skills) = 2 /\ distinctIds(registryDir.skills)

\* C21: when a skill or harness manifest of the registry does not validate,
\* loadRegistry never returns a registry, whichever loads settle first: while loads
\* are pending nothing is returned, and what is returned in the end is the error.
C21_NoPartialRegistry ==
    hasBroken =>
        /\ loaded.kind # "registry"
        /\ loaded.kind \in {"none", "loading", "ZodError"}
        /\ (loaded.kind = "loading" =>
               /\ BrokenSkill \notin Range(loaded.skills)
               /\ BrokenHarness \notin Range(loaded.harnesses))

\* C21 witness: loadRegistry has thrown on a registry with a valid skill, whose
\* directory comes first, and a broken one, and a valid harness.
C21_Witness ==
    /\ loaded.kind = "ZodError" /\ loaded.path = "manifest"
    /\ registryDir.skills = << Planner, BrokenSkill >>
    /\ registryDir.harnesses = << Codex >>

\* The ids of a list are in ascending localeCompare order.
sortedById(list) ==
    \A i \in 1..(Len(list) - 1) : localeCompare(list[i].id, list[i + 1].id) <= 0

\* C22: when every manifest validates and loadRegistry returns, each list holds
\* exactly the manifests of the directories, one per directory, sorted by id,
\* whichever loads settled first.
C22_SortedOnePerDirectory ==
    loaded.kind = "registry" =>
        /\ Len(loaded.skills) = Len(registryDir.skills)
        /\ Range(loaded.skills) = Range(registryDir.skills)
        /\ Len(loaded.harnesses) = Len(registryDir.harnesses)
        /\ Range(loaded.harnesses) = Range(registryDir.harnesses)
        /\ sortedById(loaded.skills) /\ sortedById(loaded.harnesses)

\* C22 witness: both lists of directories are listed against the order of the ids,
\* and are returned sorted.
C22_Witness ==
    /\ loaded.kind = "registry"
    /\ registryDir.skills = << Planner, FrontendDesign >>
    /\ registryDir.harnesses = << Opencode, Codex >>
    /\ loaded.skills = << FrontendDesign, Planner >>
    /\ loaded.harnesses = << Codex, Opencode >>

\* ------------------------------------------- buildAgentsMarkdown, step by step

\* The planner skill of a registry whose planner asks a question and declares
\* activation rules.
PlannerRules ==
    [Planner EXCEPT
        !.questions = << [id |-> "planDir", type |-> "path", required |-> TRUE] >>,
        !.activationRulesTemplate = "activation.md.hbs"]

\* The manifests input.skills may hold.
SkillInputs == { Backend, FrontendDesign, Planner, PlannerRules }

\* The lists of at most three manifests with distinct ids, in any order.
SkillLists ==
    { s \in UNION { [1..n -> SkillInputs] : n \in 0..MaxSkills } :
        \A i, j \in 1..Len(s) : s[i].id = s[j].id => i = j }

\* The lists that select some manifests of a list, in any order.
Selections(skills) ==
    { m \in UNION { [1..n -> Range(skills)] : n \in 0..Len(skills) } :
        \A i, j \in 1..Len(m) : m[i] = m[j] => i = j }

\* The harness ids input.harnesses may hold.
HarnessLists == { << >>, << "codex" >> }

\* The field completed of assembly records the order in which the renders completed.
\* Any input of buildAgentsMarkdown, next to a project no command has touched.
InitAgents ==
    /\ disk = << >>
    /\ backups = << >>
    /\ failures = 0
    /\ lastFailed = NoFailure
    /\ clock = 0
    /\ pc = "idle"
    /\ op = NoOp
    /\ outcome = "none"
    /\ registryDir = BuiltInRegistry
    /\ loaded = NotLoaded
    /\ \E skills \in SkillLists, harnesses \in HarnessLists :
          \E m \in Selections(skills) :
             assembly \in { [ kind |-> "input", harnesses |-> harnesses,
                              skills |-> skills, selected |-> selected ] :
                            selected \in askAll(m) }

\* Promise.all resolves with each result at the index of its promise.
settleInCompletionOrder(slots, i, value) ==
    LET k == CHOOSE k \in 1..Len(slots) :
                 /\ slots[k] = Pending
                 /\ \A j \in 1..(k - 1) : slots[j] # Pending
    IN [slots EXCEPT ![k] = value]

settle(slots, i, value) == [slots EXCEPT ![i] = value]

\* input.skills.filter((skill) => input.selectedSkillIds.includes(skill.id))
selectedSkillsOf(skills, selectedSkillIds) ==
    SelectSeq(skills, LAMBDA s : s.id \in Range(selectedSkillIds))

guideSkillsWithPlanner(selectedSkills) == selectedSkills

\* selectedSkills.filter((skill) => skill.id !== "planner")
guideSkillsOf(selectedSkills) == SelectSeq(selectedSkills, LAMBDA s : s.id # "planner")

ruleSkillsAll(selectedSkills) == selectedSkills

\* selectedSkills.filter((skill) => skill.activationRulesTemplate)
ruleSkillsOf(selectedSkills) ==
    SelectSeq(selectedSkills, LAMBDA s : s.activationRulesTemplate # "")

\* The context of a guide or activation-rule fragment of a skill.
fragmentContext(skill, selected) ==
    [skill |-> skill, answers |-> skillAnswerMap(selected, skill.id)]

\* planSection: "" or the planner's snippet, rendered with no answers.
planSectionOf(selectedSkills, selected) ==
    IF has(selectedSkills, "planner")
    THEN renderTemplateFile(
             << "skills", "planner", find(selectedSkills, "planner").agentsSnippetTemplate >>,
             [skill |-> find(selectedSkills, "planner"), answers |-> << >>])
    ELSE EmptyText

\* buildAgentsMarkdown is called: the guide fragments start to render, all at once.
startBuild ==
    /\ assembly.kind = "input"
    /\ assembly' =
          [ kind |-> "snippets", harnesses |-> assembly.harnesses,
            skills |-> assembly.skills, selected |-> assembly.selected,
            snippets |->
               [ i \in 1..Len(guideSkillsOf(selectedSkillsOf(assembly.skills,
                                                Ids(assembly.selected)))) |-> Pending ],
            activationRules |-> << >>,
            completed |-> << >> ]
    /\ UNCHANGED << disk, backups, failures, lastFailed, clock, pc, op, outcome,
                    registryDir, loaded >>

\* The render of one guide fragment completes, in any order.
renderSnippet(i) ==
    /\ assembly.kind = "snippets"
    /\ i \in DOMAIN assembly.snippets
    /\ assembly.snippets[i] = Pending
    /\ LET skill == guideSkillsOf(selectedSkillsOf(assembly.skills,
                                                   Ids(assembly.selected)))[i]
       IN assembly' =
             [assembly EXCEPT
                 !.completed = Append(@, skill.id),
                 !.snippets =
                    settle(assembly.snippets, i,
                           renderTemplateFile(
                               << "skills", skill.id, skill.agentsSnippetTemplate >>,
                               fragmentContext(skill, assembly.selected)))]
    /\ UNCHANGED << disk, backups, failures, lastFailed, clock, pc, op, outcome,
                    registryDir, loaded >>

\* Every guide fragment is rendered: the activation-rule fragments start to render.
startActivationRules ==
    /\ assembly.kind = "snippets"
    /\ \A i \in 1..Len(assembly.snippets) : assembly.snippets[i] # Pending
    /\ assembly' =
          [assembly EXCEPT
              !.kind = "rules",
              !.activationRules =
                 [ i \in 1..Len(ruleSkillsOf(selectedSkillsOf(assembly.skills,
                                                 Ids(assembly.selected)))) |-> Pending ]]
    /\ UNCHANGED << disk, backups, failures, lastFailed, clock, pc, op, outcome,
                    registryDir, loaded >>

\* The render of one activation-rule fragment completes, in any order.
renderActivationRule(i) ==
    /\ assembly.kind = "rules"
    /\ i \in DOMAIN assembly.activationRules
    /\ assembly.activationRules[i] = Pending
    /\ LET skill == ruleSkillsOf(selectedSkillsOf(assembly.skills,
                                                  Ids(assembly.selected)))[i]
       IN assembly' =
             [assembly EXCEPT
                 !.completed = Append(@, skill.id),
                 !.activationRules =
                    settle(assembly.activationRules, i,
                           renderTemplateFile(
                               << "skills", skill.id, skill.activationRulesTemplate >>,
                               fragmentContext(skill, assembly.selected)))]
    /\ UNCHANGED << disk, backups, failures, lastFailed, clock, pc, op, outcome,
                    registryDir, loaded >>

\* Every fragment is rendered: the plan section, then the base template.
returnDocument ==
    /\ assembly.kind = "rules"
    /\ \A i \in 1..Len(assembly.activationRules) : assembly.activationRules[i] # Pending
    /\ LET selectedSkills == selectedSkillsOf(assembly.skills, Ids(assembly.selected))
       IN assembly' =
             [ kind |-> "done", harnesses |-> assembly.harnesses,
               skills |-> assembly.skills, selected |-> assembly.selected,
               completed |-> assembly.completed,
               document |->
                  renderTemplateFile(
                      << "templates", "agents.base.md.hbs" >>,
                      [ projectName |-> PROJECT_NAME,
                        harnessNotes |-> IF Len(assembly.harnesses) # 0
                                         THEN assembly.harnesses ELSE << "None" >>,
                        planSection |-> planSectionOf(selectedSkills, assembly.selected),
                        skillIndexTable |-> buildSkillIndexTable(selectedSkills),
                        skillGuides |-> assembly.snippets,
                        activationRules |-> assembly.activationRules ]) ]
    /\ UNCHANGED << disk, backups, failures, lastFailed, clock, pc, op, outcome,
                    registryDir, loaded >>

NextAgents ==
    \/ startBuild
    \/ \E i \in 1..MaxSkills : renderSnippet(i)
    \/ startActivationRules
    \/ \E i \in 1..MaxSkills : renderActivationRule(i)
    \/ returnDocument

SpecAgents == InitAgents /\ [][NextAgents]_vars

\* ---------------------------------------------------------------- C23

\* The position of a skill id in the input skill list.
inputPosition(id) ==
    CHOOSE i \in 1..Len(assembly.skills) : assembly.skills[i].id = id

\* The ids of the skills whose fragments make up a section, in document order.
fragmentIds(section) == [ i \in 1..Len(section) |-> section[i].context.skill.id ]

\* The renders completed in an order that is not the order of the input list: a
\* guide before the guide of an earlier skill, and the same for a rule.
outOfOrder(completed, guides, rules) ==
    /\ Len(guides) >= 2 /\ Len(rules) >= 2
    /\ inputPosition(completed[1]) > inputPosition(completed[2])
    /\ inputPosition(completed[Len(guides) + 1]) > inputPosition(completed[Len(guides) + 2])

\* C23: in the document buildAgentsMarkdown returns, the guide fragments and the
\* activation-rule fragments stand in the order of the input skill list, whatever
\* the order in which the parallel renders of the fragments completed.
C23_FragmentsInInputOrder ==
    assembly.kind = "done" =>
        LET guides == assembly.document.context.skillGuides
            rules  == assembly.document.context.activationRules
        IN /\ \A i, j \in 1..Len(guides) :
                 i < j => inputPosition(fragmentIds(guides)[i])
                              < inputPosition(fragmentIds(guides)[j])
           /\ \A i, j \in 1..Len(rules) :
                 i < j => inputPosition(fragmentIds(rules)[i])
                              < inputPosition(fragmentIds(rules)[j])
           /\ \A i \in 1..Len(guides) : guides[i] # Pending
           /\ \A i \in 1..Len(rules) : rules[i] # Pending

\* A document returned after later fragments completed before earlier ones, under a
\* selection whose order differs from the input list's.
C23_Witness ==
    /\ assembly.kind = "done"
    /\ outOfOrder(assembly.completed, assembly.document.context.skillGuides,
                  assembly.document.context.activationRules)
    /\ Ids(assembly.selected) # Ids(selectedSkillsOf(assembly.skills, Ids(assembly.selected)))

\* ---------------------------------------------------------------- C24

\* The selected skills of the input: the manifests of input.skills with a selected id.
selectedManifests ==
    { s \in Range(assembly.skills) : s.id \in Range(Ids(assembly.selected)) }

\* The answers recorded for a selected skill.
answersOf(id) ==
    (CHOOSE e \in Range(assembly.selected) : e.id = id).answers

\* The indices of the fragments of a section that belong to a skill.
fragmentsOf(section, id) ==
    { i \in 1..Len(section) : section[i].context.skill.id = id }

\* C24: in the document buildAgentsMarkdown returns, a selected planner is rendered
\* only into the plan section, with empty answers, and never among the guides; every
\* other selected skill has its snippet among the guides, rendered with that skill's
\* answers; with no planner selected the plan section is empty.
C24_PlannerOnlyInPlanSection ==
    assembly.kind = "done" =>
        LET guides == assembly.document.context.skillGuides
            plan   == assembly.document.context.planSection
        IN /\ fragmentsOf(guides, "planner") = { }
           /\ \A s \in selectedManifests :
                 IF s.id = "planner"
                 THEN plan = renderTemplateFile(
                                 << "skills", "planner", s.agentsSnippetTemplate >>,
                                 [skill |-> s, answers |-> << >>])
                 ELSE \E i \in 1..Len(guides) :
                         /\ fragmentsOf(guides, s.id) = { i }
                         /\ guides[i] = renderTemplateFile(
                                            << "skills", s.id, s.agentsSnippetTemplate >>,
                                            [skill |-> s, answers |-> answersOf(s.id)])
           /\ \A i \in 1..Len(guides) : guides[i].context.skill \in selectedManifests
           /\ (\A s \in selectedManifests : s.id # "planner") => plan = EmptyText

\* A document of a planner with recorded answers, selected next to another skill.
C24_Witness ==
    /\ assembly.kind = "done"
    /\ \E s \in selectedManifests : s.id = "planner" /\ answersOf(s.id) # << >>
    /\ assembly.document.context.planSection # EmptyText
    /\ Len(assembly.document.context.skillGuides) >= 1
    /\ Len(assembly.skills) > Cardinality(selectedManifests)

\* ---------------------------------------------------------------- C25

\* C25: the document holds one activation-rule fragment, rendered with the skill's
\* recorded answers, for each selected skill that declares an activation-rules
\* template, and none for a selected skill without one or for an unselected skill.
C25_ActivationRulesOfSelected ==
    assembly.kind = "done" =>
        LET rules == assembly.document.context.activationRules
        IN /\ \A s \in Range(assembly.skills) :
                 IF s \in selectedManifests /\ s.activationRulesTemplate # ""
                 THEN \E i \in 1..Len(rules) :
                         /\ fragmentsOf(rules, s.id) = { i }
                         /\ rules[i] = renderTemplateFile(
                                           << "skills", s.id, s.activationRulesTemplate >>,
                                           [skill |-> s, answers |-> answersOf(s.id)])
                 ELSE fragmentsOf(rules, s.id) = { }
           /\ \A i \in 1..Len(rules) : rules[i].context.skill \in Range(assembly.skills)

\* A document of a selected skill with a template, a selected skill without one and
\* an unselected skill with one.
C25_Witness ==
    /\ assembly.kind = "done"
    /\ \E s \in selectedManifests : s.activationRulesTemplate # ""
    /\ \E s \in selectedManifests : s.activationRulesTemplate = ""
    /\ \E s \in Range(assembly.skills) \ selectedManifests : s.activationRulesTemplate # ""
    /\ Len(assembly.document.context.activationRules) = 1

\* ---------------------------------------------------------------- C26

\* The output targets of the selected definitions, in selection order and, for each
\* definition, in the order of its manifest.
RECURSIVE outputTargetsOf(_, _)
outputTargetsOf(manifests, selection) ==
    IF selection = << >> THEN << >>
    ELSE (IF has(manifests, Head(selection).id)
          THEN [ i \in 1..Len(find(manifests, Head(selection).id).outputs) |->
                   find(manifests, Head(selection).id).outputs[i].target ]
          ELSE << >>)
         \o outputTargetsOf(manifests, Tail(selection))

\* The fixed order of the writes of a command that persists a state.
writeOrder(state) ==
    << AGENTS_MD >> \o outputTargetsOf(loadSkills, state.skills)
    \o outputTargetsOf(loadHarnesses, state.harnesses) \o << STATE_JSON >>

\* The removals and writes the command has issued so far, and the targets written.
issued == SelectSeq(op.log, LAMBDA e : e.kind # "backup")

written == [ i \in 1..Len(SelectSeq(issued, LAMBDA e : e.kind = "write")) |->
               SelectSeq(issued, LAMBDA e : e.kind = "write")[i].target ]

\* C26: in every skills or harnesses remove, every removal of a stale file happens
\* before the first write of a rendered output, and the writes follow the fixed order
\* ai/agents.md, the skill outputs in selection order, the harness outputs in
\* selection order, and the state file last.
C26_RemovalsThenWritesInOrder ==
    (reconciling /\ op.action = "remove") =>
        /\ \A i, j \in 1..Len(issued) :
              i < j => ~(issued[i].kind = "write" /\ issued[j].kind = "rm")
        /\ written # << >> =>
              { issued[i].target : i \in { j \in 1..Len(issued) : issued[j].kind = "rm" } }
                 = targetSet(stateFile(op.disk0).data) \ targetSet(op.nextState)
        /\ Len(written) <= Len(writeOrder(op.nextState))
        /\ written = SubSeq(writeOrder(op.nextState), 1, Len(written))
        /\ (pc = "done" /\ outcome = "ok") => written = writeOrder(op.nextState)

\* A completed remove that removed an existing stale file and then wrote
\* ai/agents.md, a skill output, a harness output and the state file.
C26_Witness ==
    /\ reconciled /\ op.action = "remove"
    /\ \E i \in 1..Len(issued) : issued[i].kind = "rm" /\ issued[i].existed
    /\ outputTargetsOf(loadSkills, op.nextState.skills) # << >>
    /\ outputTargetsOf(loadHarnesses, op.nextState.harnesses) # << >>
    /\ written = writeOrder(op.nextState)

\* ---------------------------------------------------------------- C27

\* The step at hand removes a stale target whose file does not exist.
missingStale ==
    /\ pc = "run" /\ op.todo # << >>
    /\ op.todo[1].kind = "rm"
    /\ projectPath(op.todo[1].target) \notin DOMAIN disk

\* The backup files there are for a target.
backupsOf(b, target) ==
    { q \in DOMAIN b : SubSeq(q, Len(q) - Len(projectPath(target)) + 1, Len(q))
                          = projectPath(target) }

\* C27: removing a stale target whose file does not exist is a no-op: the removal
\* can be done and raises no error, it creates no backup file and changes no file,
\* and the command goes on with the steps that are left.
C27_MissingStaleIsNoOp ==
    /\ [](missingStale => ENABLED stepRemove)
    /\ [][ missingStale =>
             \/ outcome' = "ioError" /\ failures' = failures + 1
             \/ /\ disk' = disk
                /\ backups' = backups
                /\ backupsOf(backups', op.todo[1].target) = { }
                /\ op'.todo = Tail(op.todo)
                /\ outcome' = IF op'.todo = << >> THEN "ok" ELSE "running" ]_vars

\* A remove with backups enabled that found a stale file missing and has completed,
\* the state file written.
C27_Witness ==
    /\ reconciled /\ op.action = "remove" /\ op.backup.enabled
    /\ \E i \in 1..Len(op.log) : op.log[i].kind = "rm" /\ ~op.log[i].existed
    /\ stateFile(disk).data = op.nextState

\* ---------------------------------------------------------------- C28

\* The state persisted when the command started, and the stale set of the specified
\* delta: the previous targets that are not next ones.
previousState ==
    IF stateFile(op.disk0) = Absent THEN NoState ELSE stateFile(op.disk0).data

specifiedStale == targetSet(previousState) \ targetSet(op.nextState)

\* C28: the code computes and removes stale files for a remove only, and what it
\* removes is the specified delta in every command: for every add the previous
\* target set is a subset of the next one and the specified stale set is empty, and
\* for an init there is no previous state.
C28_StaleOnlyOnRemove ==
    started =>
        /\ planRemoves = specifiedStale
        /\ op.action # "remove" =>
              /\ planRemoves = { }
              /\ op.staleTargets = << >>
              /\ targetSet(previousState) \subseteq targetSet(op.nextState)

\* A completed add whose next target set is larger than a previous one that already
\* held outputs of a skill and of a harness.
C28_Witness ==
    /\ reconciled /\ op.action = "add"
    /\ targetSet(previousState) # targetSet(op.nextState)
    /\ Cardinality(targetSet(previousState)) >= 4

\* ---------------------------------------------------------------- C29

\* An init, add or remove has completed.
completed == pc = "done" /\ outcome = "ok" /\ op.cmd \in {"init", "skills", "harnesses"}

\* C29 as stated: after every completed init, add or remove, for every registry
\* whose manifests pass their schemas, ai/agents.md holds the aggregate document
\* rendered from the skills, answers and harnesses recorded in ai/ai-manager.json.
C29_AgentsDocumentOfState ==
    completed =>
        /\ projectPath(AGENTS_MD) \in DOMAIN disk
        /\ stateFile(disk) # Absent
        /\ disk[projectPath(AGENTS_MD)] = agentsDocument(stateFile(disk).data)

\* ---------------------------------------------------------------- C30

\* The files that existed when the command started and that it has overwritten or
\* removed.
replaced ==
    { p \in DOMAIN op.disk0 :
        \E i \in 1..Len(op.log) :
           /\ op.log[i].kind \in {"write", "rm"}
           /\ projectPath(op.log[i].target) = p }

\* C30 as stated: with backups enabled, when a command completes, the backup file
\* of every target that existed before it and was overwritten or removed holds the
\* bytes the target had when the command started, also when several selected
\* definitions declare the same target and it is written more than once.
C30_BackupHoldsOriginalBytes ==
    (completed /\ op.backup.enabled) =>
        \A p \in replaced :
           /\ resolveBackupPath(p, op.backup.backupRoot) \in DOMAIN backups
           /\ backups[resolveBackupPath(p, op.backup.backupRoot)] = op.disk0[p]

\* ---------------------------------------------------------------- C31

\* The renderings a persisted state's definitions make of a target, in write order:
\* the skills in persisted order, then the harnesses in persisted order.
renderingsOf(state, target) ==
    LET ofSkill(sel) ==
            IF ~has(loadSkills, sel.id) THEN << >>
            ELSE LET m == find(loadSkills, sel.id) IN
                 [ i \in 1..Len(SelectSeq(m.outputs, LAMBDA o : o.target = target)) |->
                     renderTemplateFile(
                         << "skills", m.id,
                            SelectSeq(m.outputs, LAMBDA o : o.target = target)[i].template >>,
                         [skill |-> m, answers |-> sel.answers]) ]
        ofHarness(sel) ==
            IF ~has(loadHarnesses, sel.id) THEN << >>
            ELSE LET m == find(loadHarnesses, sel.id) IN
                 [ i \in 1..Len(SelectSeq(m.outputs, LAMBDA o : o.target = target)) |->
                     renderTemplateFile(
                         << "harnesses", m.id,
                            SelectSeq(m.outputs, LAMBDA o : o.target = target)[i].template >>,
                         [harness |-> m]) ]
        F[n \in 0..(Len(state.skills) + Len(state.harnesses))] ==
            IF n = 0 THEN << >>
            ELSE F[n - 1] \o (IF n <= Len(state.skills) THEN ofSkill(state.skills[n])
                              ELSE ofHarness(state.harnesses[n - Len(state.skills)]))
    IN F[Len(state.skills) + Len(state.harnesses)]

\* The targets two or more selected definitions of a state declare.
sharedTargets(state) ==
    IF state = NoState THEN { }
    ELSE { t \in targetSet(state) \ {AGENTS_MD, STATE_JSON} :
             Len(renderingsOf(state, t)) >= 2 }

\* C31: a target two selected definitions declare is not deleted when one of them
\* is removed, and after the command it holds the remaining definition's rendering;
\* while both are selected it holds the rendering of the definition that comes last
\* in write order (skills in persisted order, then harnesses in persisted order).
C31_SharedTargetLastWriterWins ==
    /\ (started /\ op.action = "remove") =>
          \A t \in sharedTargets(previousState) :
             renderingsOf(op.nextState, t) # << >> =>
                /\ t \notin planRemoves
                /\ projectPath(t) \in DOMAIN op.disk0 => projectPath(t) \in DOMAIN disk
    /\ completed =>
          \A t \in targetSet(op.nextState) \ {AGENTS_MD, STATE_JSON} :
             renderingsOf(op.nextState, t) # << >> =>
                /\ projectPath(t) \in DOMAIN disk
                /\ disk[projectPath(t)] =
                      renderingsOf(op.nextState, t)[Len(renderingsOf(op.nextState, t))]

\* A completed remove of the harness added last of two that declare the same file:
\* the file held that harness's rendering and holds the other's now.
C31_Witness ==
    /\ completed /\ op.action = "remove" /\ op.cmd = "harnesses"
    /\ Ids(previousState.harnesses) = << "opencode", "codex" >>
    /\ Ids(op.nextState.harnesses) = << "opencode" >>
    /\ "AGENTS.md" \in sharedTargets(previousState)
    /\ op.disk0[projectPath("AGENTS.md")].context.harness.id = "codex"
    /\ disk[projectPath("AGENTS.md")].context.harness.id = "opencode"

\* ---------------------------------------------------------------- C32

\* The persisted ids the freshly loaded registry no longer contains.
missingSkillIds ==
    IF previousState = NoState THEN { }
    ELSE { id \in Range(Ids(previousState.skills)) : ~has(loadSkills, id) }

missingHarnessIds ==
    IF previousState = NoState THEN { }
    ELSE { id \in Range(Ids(previousState.harnesses)) : ~has(loadHarnesses, id) }

\* The targets the manifests of the missing ids declared when their outputs were
\* generated, and that no selected definition of the loaded registry declares.
orphanTargets ==
    (UNION { { m.outputs[i].target : i \in 1..Len(m.outputs) } :
             m \in { n \in Range(BuiltInRegistry.skills) : n.id \in missingSkillIds }
                   \cup { n \in Range(BuiltInRegistry.harnesses) :
                            n.id \in missingHarnessIds } })
    \ (declaredBy(loadSkills, previousState.skills)
       \cup declaredBy(loadHarnesses, previousState.harnesses)
       \cup declaredBy(loadSkills, op.nextState.skills)
       \cup declaredBy(loadHarnesses, op.nextState.harnesses))

\* C32: when the persisted state names a skill or harness id the freshly loaded
\* registry no longer contains, an add or remove counts none of that id's outputs
\* among the previous targets, writes and removes no file on its behalf, never
\* offers the id as a choice, and keeps the id in the state it persists.
C32_MissingIdIsInert ==
    reconciling =>
        /\ \A t \in orphanTargets :
              /\ t \notin Range(op.previousTargets)
              /\ t \notin planRemoves \cup planWrites
              /\ projectPath(t) \in DOMAIN op.disk0 =>
                    /\ projectPath(t) \in DOMAIN disk
                    /\ disk[projectPath(t)] = op.disk0[projectPath(t)]
        /\ Range(op.selectedIds) \cap
              (IF op.cmd = "skills" THEN missingSkillIds ELSE missingHarnessIds) = { }
        /\ missingSkillIds \subseteq Range(Ids(op.nextState.skills))
        /\ missingHarnessIds \subseteq Range(Ids(op.nextState.harnesses))

\* A completed remove in a project whose state names a skill and a harness that are
\* gone from the registry, their generated files still there.
C32_Witness ==
    /\ reconciled /\ op.action = "remove"
    /\ missingSkillIds # { } /\ missingHarnessIds # { }
    /\ \E t \in orphanTargets : projectPath(t) \in DOMAIN disk
    /\ stateFile(disk).data = op.nextState
====
